---- MODULE Spec2Model ----
(***************************************************************************)
(* The book-catalog scripts: the Seeder (books.js, main) and the Query     *)
(* Runner (queries.js, run) against one persisted collection.              *)
(*                                                                         *)
(* Prices are held in cents (14.99 is 1499), so that sums and means are    *)
(* exact; a mean is the pair (sum, count) and is compared as a rational.   *)
(* The collection is a sequence in natural (insertion) order.              *)
(***************************************************************************)
EXTENDS Integers, Sequences, FiniteSets, TLC

VARIABLES
    col,        \* plp_bookstore.books: the persisted records, natural order
    nextId,     \* the next _id the driver generates
    indexes,    \* names of the secondary indexes of the collection
    script,     \* the process that runs: "none", "seeder" or "queries"
    phase,      \* "idle", "try", "finally", "closing", "done"
    pc,         \* position in the try block: index of the next operation
    inflight,   \* operations issued to the datastore and not yet settled
    issued,     \* operations issued by this run, in order
    settled,    \* operations of this run that completed successfully
    err,        \* what the catch block reported ("none" when nothing)
    closeCalls, \* calls of client.close() made by this run
    out,        \* the values this run printed, by operation
    call,       \* the last function call made: [op, title, price]
    runs,       \* scripts started so far
    seedOk,     \* insertMany calls that succeeded
    partial,    \* records inserted by insertMany calls that failed midway
    removed     \* records deleted

vars == <<col, nextId, indexes, script, phase, pc, inflight, issued, settled,
          err, closeCalls, out, call, runs, seedOk, partial, removed>>

db == <<col, nextId, indexes>>
ghost == <<seedOk, partial, removed>>

----------------------------------------------------------------------------
(* Bounds *)

MaxRuns == 4
MaxSeeds == 2
MaxCalls == 3

----------------------------------------------------------------------------
(* The fixture *)

Book(t, a, g, y, p, s, n, pub) ==
    [title |-> t, author |-> a, genre |-> g, published_year |-> y, price |-> p,
     in_stock |-> s, pages |-> n, publisher |-> pub]

sampleBooks ==
    << Book("The Silent Orchard", "Ava Harper", "Fiction", 2018, 1499, TRUE, 320, "Harbor Press"),
       Book("Learning MongoDB", "Samuel Reed", "Non-Fiction", 2021, 3950, TRUE, 280, "TechBooks"),
       Book("Galaxies Apart", "Maya Chen", "Science Fiction", 2012, 1200, FALSE, 410, "Orbit House"),
       Book("The Last Alchemist", "Ava Harper", "Fantasy", 2005, 999, TRUE, 450, "Mythic Press"),
       Book("Mysteries of Grey Manor", "Derek Cole", "Mystery", 2016, 1150, FALSE, 370, "Detective House"),
       Book("A Short History of Timekeeping", "Nina Patel", "History", 1998, 2400, TRUE, 220, "Chronicle Pub"),
       Book("Romance on 5th Avenue", "Liam Brooks", "Romance", 2019, 799, TRUE, 300, "LoveReads"),
       Book("Data Patterns in the Wild", "Samuel Reed", "Non-Fiction", 2015, 4500, FALSE, 500, "TechBooks"),
       Book("Echoes of Tomorrow", "Maya Chen", "Science Fiction", 2020, 1875, TRUE, 360, "Orbit House"),
       Book("Memoirs of a Voyager", "Isabella Stone", "Biography", 2002, 1600, TRUE, 410, "LifeStory Press"),
       Book("Practical Indexing", "Samuel Reed", "Non-Fiction", 2010, 2999, TRUE, 200, "TechBooks"),
       Book("Shadows Under the Ivy", "Derek Cole", "Mystery", 2022, 1350, TRUE, 330, "Detective House") >>

BookFields == {"title", "author", "genre", "published_year", "price",
               "in_stock", "pages", "publisher"}

\* The datastore compares strings byte by byte; on the strings the scripts
\* use as sort keys that order is this one.
TitleOrder ==
    << "A Short History of Timekeeping", "Data Patterns in the Wild",
       "Echoes of Tomorrow", "Galaxies Apart", "Learning MongoDB",
       "Memoirs of a Voyager", "Mysteries of Grey Manor", "Practical Indexing",
       "Romance on 5th Avenue", "Shadows Under the Ivy", "The Last Alchemist",
       "The Silent Orchard" >>

TitleRank(t) ==
    IF \E k \in 1..Len(TitleOrder) : TitleOrder[k] = t
    THEN CHOOSE k \in 1..Len(TitleOrder) : TitleOrder[k] = t
    ELSE Len(TitleOrder) + 1

----------------------------------------------------------------------------
(* The datastore operations the scripts call *)

Range(s) == {s[i] : i \in 1..Len(s)}

\* A seeder that upserts by title: a document whose title is already in the
\* collection replaces that record.
insertManyUpsert(c, docs, first) ==
    LET fresh == SelectSeq([i \in 1..Len(docs) |->
                                [f \in BookFields \cup {"id"} |->
                                    IF f = "id" THEN first + i - 1 ELSE docs[i][f]]],
                           LAMBDA d : \A j \in 1..Len(c) : c[j].title # d.title)
    IN  c \o fresh

\* insertMany(docs): every document is appended as a new record under a
\* fresh _id; nothing is matched against the records already there.

insertMany(c, docs, first) ==
    c \o [i \in 1..Len(docs) |->
            [f \in BookFields \cup {"id"} |-> IF f = "id" THEN first + i - 1 ELSE docs[i][f]]]

\* Cursor projection { f: 1, ..., _id: 0 }.
Project(c, fields) ==
    CHOOSE r \in {[i \in 1..Len(cv) |-> [f \in fields |-> cv[i][f]]] \o <<>> :
                    cv \in {c}} : TRUE

\* The first record, in natural order, whose title is t (0: none).
Matches(c, t) == {i \in 1..Len(c) : c[i].title = t}

FirstMatch(c, t) ==
    IF Matches(c, t) = {} THEN 0
    ELSE CHOOSE i \in Matches(c, t) : \A j \in Matches(c, t) : i <= j

\* cursor.sort: the records in ascending order of their keys, less[i][j]
\* telling whether the key of s[i] sorts before the key of s[j]; records
\* with equal keys come out in an order the datastore does not promise,
\* natural or not.
TieOrders == {"natural", "reverse"}

\* (In the definitions below, CHOOSE r \in {e(v) : v \in {x}} : TRUE is
\* e(x) with x evaluated once.)
SortPos(n, less, tie, i) ==
    1 + Cardinality({j \in 1..n :
            \/ less[j][i]
            \/ /\ ~less[i][j]
               /\ j # i
               /\ IF tie = "natural" THEN j < i ELSE j > i})

Placed(s, pos) == [k \in 1..Len(s) |-> s[CHOOSE i \in 1..Len(s) : pos[i] = k]] \o <<>>

SortBy(s, less, tie) ==
    CHOOSE r \in {Placed(sv, pv) :
                    sv \in {s},
                    pv \in {[i \in 1..Len(lv) |-> SortPos(Len(lv), lv, tie, i)] \o <<>> :
                                lv \in {less}}} : TRUE

\* The order of the records of s by an integer key, ascending (dir = 1) or
\* descending (dir = -1).
ByKey(keys, dir) ==
    CHOOSE r \in {[i \in 1..Len(kv) |->
                        [j \in 1..Len(kv) |-> dir * kv[i] < dir * kv[j]] \o <<>>] \o <<>> :
                    kv \in {keys}} : TRUE

\* cursor.skip(n).limit(m)
SkipLimit(s, n, m) ==
    IF n >= Len(s) THEN <<>>
    ELSE SubSeq(s, n + 1, IF n + m < Len(s) THEN n + m ELSE Len(s))

RECURSIVE SumSeq(_)
SumSeq(s) == IF s = <<>> THEN 0 ELSE Head(s) + SumSeq(Tail(s))

\* The distinct values of s, each at its first appearance: the order in
\* which $group meets its keys.
FirstAt(s) == {i \in 1..Len(s) : \A j \in 1..(i - 1) : s[j] # s[i]}

FirstSeen(s) ==
    CHOOSE r \in {[k \in 1..Cardinality(I) |->
                        sv[CHOOSE i \in I : Cardinality({j \in I : j <= i}) = k]] \o <<>> :
                    sv \in {s}, I \in {FirstAt(s)}} : TRUE

FieldOf(c, f) ==
    CHOOSE r \in {[i \in 1..Len(cv) |-> cv[i][f]] \o <<>> : cv \in {c}} : TRUE

----------------------------------------------------------------------------
(* The Query Runner's functions, each on a collection c *)

Null == [null |-> TRUE]

findByGenre(c, genre) ==
    Project(SelectSeq(c, LAMBDA b : b.genre = genre), {"title", "author", "price"})

findPublishedAfter(c, year) ==
    Project(SelectSeq(c, LAMBDA b : b.published_year > year), {"title", "published_year"})

findByAuthor(c, author) ==
    Project(SelectSeq(c, LAMBDA b : b.author = author), {"title", "genre", "price"})

\* findOneAndUpdate with { upsert: true }: no match inserts a record.
findOneAndUpdateUpsert(c, title, newPrice) ==
    LET i == FirstMatch(c, title)
        made == [f \in BookFields \cup {"id"} |->
                    CASE f = "title" -> title
                      [] f = "price" -> newPrice
                      [] f \in {"published_year", "pages", "id"} -> 0
                      [] f = "in_stock" -> FALSE
                      [] OTHER -> ""]
    IN  IF i = 0 THEN [col |-> Append(c, made), value |-> made]
        ELSE [col |-> [c EXCEPT ![i].price = newPrice],
              value |-> [c[i] EXCEPT !.price = newPrice]]

\* findOneAndUpdate without returnDocument: 'after' hands back the record
\* as it was before the change.
findOneAndUpdateBefore(c, title, newPrice) ==
    LET i == FirstMatch(c, title)
    IN  IF i = 0 THEN [col |-> c, value |-> [null |-> TRUE]]
        ELSE [col |-> [c EXCEPT ![i].price = newPrice], value |-> c[i]]

\* findOneAndUpdate({title}, {$set: {price}}, {returnDocument: 'after'}):
\* the first match is changed and handed back as it is after the change;
\* no match changes nothing and hands back null.
findOneAndUpdate(c, title, newPrice) ==
    LET i == FirstMatch(c, title)
    IN  IF i = 0 THEN [col |-> c, value |-> Null]
        ELSE [col |-> [c EXCEPT ![i].price = newPrice],
              value |-> [c[i] EXCEPT !.price = newPrice]]

updatePriceByTitleBefore(c, title, newPrice) ==
    findOneAndUpdateBefore(c, title, newPrice)

updatePriceByTitle(c, title, newPrice) == findOneAndUpdate(c, title, newPrice)

\* deleteMany({title}): every match is removed.
deleteManyByTitle(c, title) ==
    [col |-> SelectSeq(c, LAMBDA b : b.title # title),
     deletedCount |-> Cardinality(Matches(c, title))]

\* deleteOne({title}): the first match is removed.
deleteOne(c, title) ==
    LET i == FirstMatch(c, title)
    IN  IF i = 0 THEN [col |-> c, deletedCount |-> 0]
        ELSE [col |-> SubSeq(c, 1, i - 1) \o SubSeq(c, i + 1, Len(c)),
              deletedCount |-> 1]

deleteByTitle(c, title) == deleteOne(c, title)

inStockAfter2010(c) ==
    Project(SelectSeq(c, LAMBDA b : b.in_stock /\ b.published_year > 2010),
            {"title", "author", "price"})

projectAll(c) == Project(c, {"title", "author", "price"})

sortByPrice(c, dir, tie) ==
    SortBy(Project(c, {"title", "price"}), ByKey(FieldOf(c, "price"), dir), tie)

pageSize == 5

\* A pager that skips pageNumber - 1 records instead of that many pages.
getPageSkipsRecords(c, pageNumber, tie) ==
    SkipLimit(SortBy(Project(c, {"title", "author"}),
                     ByKey([i \in 1..Len(c) |-> TitleRank(c[i].title)], 1),
                     tie),
              pageNumber - 1, pageSize)

getPage(c, pageNumber, tie) ==
    LET skip == (pageNumber - 1) * pageSize
    IN  SkipLimit(SortBy(Project(c, {"title", "author"}),
                         ByKey([i \in 1..Len(c) |-> TitleRank(c[i].title)], 1),
                         tie),
                  skip, pageSize)

\* A mean taken by integer division.
AvgTruncated(prices) == [sum |-> SumSeq(prices) \div Len(prices), n |-> 1]

\* $avg of a group: the sum of its prices over their number.
Avg(prices) == [sum |-> SumSeq(prices), n |-> Len(prices)]

RatLess(x, y) == x.sum * y.n < y.sum * x.n

\* The order by a mean, ascending (dir = 1) or descending (dir = -1).
ByMean(means, dir) ==
    CHOOSE r \in {[i \in 1..Len(mv) |->
                        [j \in 1..Len(mv) |->
                            IF dir = 1 THEN RatLess(mv[i], mv[j])
                            ELSE RatLess(mv[j], mv[i])] \o <<>>] \o <<>> :
                    mv \in {means}} : TRUE

avgPriceByGenre(c, tie) ==
    LET keys == FirstSeen(FieldOf(c, "genre"))
        group(g) ==
            LET members == SelectSeq(c, LAMBDA b : b.genre = g)
            IN  [id |-> g, averagePrice |-> Avg(FieldOf(members, "price")),
                 count |-> Len(members)]
        groups == [k \in 1..Len(keys) |-> group(keys[k])]
    IN  SortBy(groups, ByMean(FieldOf(groups, "averagePrice"), -1), tie)

topAuthor(c, tie) ==
    LET keys == FirstSeen(FieldOf(c, "author"))
        group(a) == [id |-> a, count |-> Len(SelectSeq(c, LAMBDA b : b.author = a))]
        groups == [k \in 1..Len(keys) |-> group(keys[k])]
    IN  SkipLimit(SortBy(groups, ByKey(FieldOf(groups, "count"), -1), tie), 0, 1)

\* A decade rounded to the nearest ten instead of floored.
DecadeRounded(b) == ((b.published_year + 5) \div 10) * 10

\* $addFields decade: $multiply [ $floor ($divide [published_year, 10]), 10 ]
Decade(b) == (b.published_year \div 10) * 10

byDecade(c, tie) ==
    LET keys == FirstSeen([i \in 1..Len(c) |-> Decade(c[i])])
        group(d) ==
            LET members == SelectSeq(c, LAMBDA b : Decade(b) = d)
            IN  [id |-> d, count |-> Len(members), titles |-> FieldOf(members, "title")]
        groups == [k \in 1..Len(keys) |-> group(keys[k])]
    IN  SortBy(groups, ByKey(FieldOf(groups, "id"), 1), tie)

\* find(query).explain('executionStats'): what the datastore's planner
\* reports, an index scan when an index covers the query's leading field.
explain(matched, idx, index) ==
    IF index \in idx
    THEN [winningPlan |-> "IXSCAN", totalKeysExamined |-> Len(matched)]
    ELSE [winningPlan |-> "COLLSCAN", totalKeysExamined |-> 0]

\* createIndex(keys, {name}): creating an index that exists changes nothing.
createIndex(idx, name) == idx \cup {name}

----------------------------------------------------------------------------
(* The two scripts *)

\* The awaited datastore operations of each try block, in source order.
seederOps == << "connect", "insertMany" >>

queriesOps ==
    << "connect", "findByGenre", "findPublishedAfter", "findByAuthor",
       "updatePriceByTitle", "deleteByTitle", "inStockAfter2010", "projectAll",
       "sortPriceAsc", "sortPriceDesc", "getPage1", "getPage2",
       "avgPriceByGenre", "topAuthor", "byDecade", "explainBefore",
       "createIndexTitle", "createIndexCompound", "explainAfter",
       "explainCompound" >>

Ops(s) == IF s = "seeder" THEN seederOps ELSE queriesOps

NoCall == [op |-> "none", title |-> "", price |-> 0]

EmptyOut ==
    [last |-> <<>>, updated |-> <<>>, deletedCount |-> 0, page1 |-> <<>>,
     page2 |-> <<>>, avgPriceByGenre |-> <<>>, byDecade |-> <<>>,
     explainBefore |-> "", explainAfter |-> "", explainCompound |-> "",
     insertedCount |-> 0, closed |-> FALSE]

\* res.value as printed: no element for null, else the one document.
Printed(value) == IF value = Null THEN <<>> ELSE <<value>>

Init ==
    /\ col = <<>>
    /\ nextId = 1
    /\ indexes = {}
    /\ script = "none"
    /\ phase = "idle"
    /\ pc = 1
    /\ inflight = {}
    /\ issued = <<>>
    /\ settled = {}
    /\ err = "none"
    /\ closeCalls = 0
    /\ out = EmptyOut
    /\ call = NoCall
    /\ runs = 0
    /\ seedOk = 0
    /\ partial = 0
    /\ removed = 0

\* node books.js / node queries.js: a new process, a new client.
Start(s) ==
    /\ phase \in {"idle", "done"}
    /\ runs < MaxRuns
    /\ script' = s
    /\ phase' = "try"
    /\ pc' = 1
    /\ inflight' = {}
    /\ issued' = <<>>
    /\ settled' = {}
    /\ err' = "none"
    /\ closeCalls' = 0
    /\ out' = EmptyOut
    /\ call' = NoCall
    /\ runs' = runs + 1
    /\ UNCHANGED <<db, ghost>>

\* Calls made without await: the next statement runs at once.
NotAwaited == TRUE

\* await: the statement after an awaited call runs when the call has settled.
Awaited == inflight = {}

\* The next call of the try block is made.
Issue ==
    /\ phase = "try"
    /\ pc <= Len(Ops(script))
    /\ Awaited
    /\ inflight' = inflight \cup {Ops(script)[pc]}
    /\ issued' = Append(issued, Ops(script)[pc])
    /\ pc' = pc + 1
    /\ UNCHANGED <<db, ghost, script, phase, settled, err, closeCalls, out, call, runs>>

\* What a successful call does to the collection.
Written(op, c) ==
    CASE op = "insertMany" -> insertMany(c, sampleBooks, nextId)
      [] op = "updatePriceByTitle" -> updatePriceByTitle(c, "The Silent Orchard", 1249).col
      [] op = "deleteByTitle" -> deleteByTitle(c, "Memoirs of a Voyager").col
      [] OTHER -> c

\* What the script prints of a successful call's result.
Logged(op, c, idx, tie) ==
    CASE op = "insertMany" -> [out EXCEPT !.insertedCount = Len(sampleBooks)]
      [] op = "findByGenre" -> [out EXCEPT !.last = findByGenre(c, "Non-Fiction")]
      [] op = "findPublishedAfter" -> [out EXCEPT !.last = findPublishedAfter(c, 2015)]
      [] op = "findByAuthor" -> [out EXCEPT !.last = findByAuthor(c, "Samuel Reed")]
      [] op = "updatePriceByTitle" ->
            [out EXCEPT !.updated =
                Printed(updatePriceByTitle(c, "The Silent Orchard", 1249).value)]
      [] op = "deleteByTitle" ->
            [out EXCEPT !.deletedCount =
                deleteByTitle(c, "Memoirs of a Voyager").deletedCount]
      [] op = "inStockAfter2010" -> [out EXCEPT !.last = inStockAfter2010(c)]
      [] op = "projectAll" -> [out EXCEPT !.last = projectAll(c)]
      [] op = "sortPriceAsc" -> [out EXCEPT !.last = sortByPrice(c, 1, tie)]
      [] op = "sortPriceDesc" -> [out EXCEPT !.last = sortByPrice(c, -1, tie)]
      [] op = "getPage1" -> [out EXCEPT !.page1 = getPage(c, 1, tie)]
      [] op = "getPage2" -> [out EXCEPT !.page2 = getPage(c, 2, tie)]
      [] op = "avgPriceByGenre" -> [out EXCEPT !.avgPriceByGenre = avgPriceByGenre(c, tie)]
      [] op = "topAuthor" -> [out EXCEPT !.last = topAuthor(c, tie)]
      [] op = "byDecade" -> [out EXCEPT !.byDecade = byDecade(c, tie)]
      [] op = "explainBefore" ->
            [out EXCEPT !.explainBefore =
                explain(SelectSeq(c, LAMBDA b : b.title = "Echoes of Tomorrow"),
                        idx, "idx_title_1").winningPlan]
      [] op = "explainAfter" ->
            [out EXCEPT !.explainAfter =
                explain(SelectSeq(c, LAMBDA b : b.title = "Echoes of Tomorrow"),
                        idx, "idx_title_1").winningPlan]
      [] op = "explainCompound" ->
            [out EXCEPT !.explainCompound =
                explain(SelectSeq(c, LAMBDA b : b.author = "Samuel Reed"
                                                /\ b.published_year >= 2000),
                        idx, "idx_author_publishedYear").winningPlan]
      [] OTHER -> out

Indexed(op, idx) ==
    CASE op = "createIndexTitle" -> createIndex(idx, "idx_title_1")
      [] op = "createIndexCompound" -> createIndex(idx, "idx_author_publishedYear")
      [] OTHER -> idx

CallOf(op) ==
    CASE op = "updatePriceByTitle" ->
            [op |-> op, title |-> "The Silent Orchard", price |-> 1249]
      [] op = "deleteByTitle" ->
            [op |-> op, title |-> "Memoirs of a Voyager", price |-> 0]
      [] OTHER -> [op |-> op, title |-> "", price |-> 0]

\* An awaited call resolves.
Settle(op) ==
    /\ op \in inflight
    /\ op # "close"
    /\ \E tie \in TieOrders :
        out' = Logged(op, col, indexes, tie)
    /\ col' = Written(op, col)
    /\ nextId' = IF op = "insertMany" THEN nextId + Len(sampleBooks) ELSE nextId
    /\ indexes' = Indexed(op, indexes)
    /\ inflight' = inflight \ {op}
    /\ settled' = settled \cup {op}
    /\ call' = CallOf(op)
    /\ seedOk' = IF op = "insertMany" THEN seedOk + 1 ELSE seedOk
    /\ removed' = IF op = "deleteByTitle"
                  THEN removed + deleteByTitle(col, "Memoirs of a Voyager").deletedCount
                  ELSE removed
    /\ UNCHANGED <<script, phase, pc, issued, err, closeCalls, runs, partial>>

\* close() at the end of the try block instead of in finally: an error
\* skips it.
AfterCatchNoRelease == "done"

\* An error that is swallowed per call: the try block goes on.
AfterCatchContinue == "try"

\* catch (err): the error is printed and control passes to the finally
\* block; nothing of the try block after the failed call runs.
AfterCatch == "finally"

\* insertMany(..., { ordered: true }) stops at the first document the
\* datastore refuses: the documents before it stay inserted.
PartialInserts == {0, 1, Len(sampleBooks) - 1}

\* An awaited call rejects.
Reject(op) ==
    /\ op \in inflight
    /\ op # "close"
    /\ \E k \in (IF op = "insertMany" THEN PartialInserts ELSE {0}) :
        /\ col' = insertMany(col, SubSeq(sampleBooks, 1, k), nextId)
        /\ partial' = partial + k
    /\ nextId' = IF op = "insertMany" THEN nextId + Len(sampleBooks) ELSE nextId
    /\ inflight' = inflight \ {op}
    /\ err' = op
    /\ phase' = AfterCatch
    /\ UNCHANGED <<indexes, script, pc, issued, settled, closeCalls, out, call,
                   runs, seedOk, removed>>

\* The try block ran to its end.
EndTry ==
    /\ phase = "try"
    /\ pc > Len(Ops(script))
    /\ Awaited
    /\ phase' = "finally"
    /\ UNCHANGED <<db, ghost, script, pc, inflight, issued, settled, err,
                   closeCalls, out, call, runs>>

\* finally { await client.close(); ... }
IssueClose ==
    /\ phase = "finally"
    /\ Awaited
    /\ closeCalls' = closeCalls + 1
    /\ issued' = Append(issued, "close")
    /\ inflight' = inflight \cup {"close"}
    /\ phase' = "closing"
    /\ UNCHANGED <<db, ghost, script, pc, settled, err, out, call, runs>>

\* close() settles; 'Connection closed.' is printed when it resolved.
SettleClose ==
    /\ phase = "closing"
    /\ "close" \in inflight
    /\ \E ok \in BOOLEAN : out' = [out EXCEPT !.closed = ok]
    /\ inflight' = inflight \ {"close"}
    /\ phase' = "done"
    /\ UNCHANGED <<db, ghost, script, pc, issued, settled, err, closeCalls, call, runs>>

AllOps == Range(seederOps) \cup Range(queriesOps)

Next ==
    \/ \E s \in {"seeder", "queries"} : Start(s)
    \/ Issue
    \/ \E op \in AllOps : Settle(op)
    \/ \E op \in AllOps : Reject(op)
    \/ EndTry
    \/ IssueClose
    \/ SettleClose

Spec == Init /\ [][Next]_vars

----------------------------------------------------------------------------
(* The functions on their own: any title, any price, any collection that   *)
(* seeding, updating and deleting produce.                                  *)

OpTitles ==
    {"The Silent Orchard", "Data Patterns in the Wild", "Memoirs of a Voyager",
     "A Short History of Timekeeping", "No Such Book"}

OpPrices == {1249, 4500}

OpsSeed ==
    /\ seedOk < MaxSeeds
    /\ col' = insertMany(col, sampleBooks, nextId)
    /\ nextId' = nextId + Len(sampleBooks)
    /\ seedOk' = seedOk + 1
    /\ out' = [EmptyOut EXCEPT !.insertedCount = Len(sampleBooks)]
    /\ call' = [op |-> "insertMany", title |-> "", price |-> 0]
    /\ UNCHANGED <<indexes, script, phase, pc, inflight, issued, settled, err,
                   closeCalls, runs, partial, removed>>

OpsUpdate(title, newPrice) ==
    /\ runs < MaxCalls
    /\ col' = updatePriceByTitle(col, title, newPrice).col
    /\ out' = [EmptyOut EXCEPT !.updated =
                    Printed(updatePriceByTitle(col, title, newPrice).value)]
    /\ call' = [op |-> "updatePriceByTitle", title |-> title, price |-> newPrice]
    /\ runs' = runs + 1
    /\ UNCHANGED <<nextId, indexes, script, phase, pc, inflight, issued, settled,
                   err, closeCalls, ghost>>

OpsDelete(title) ==
    /\ runs < MaxCalls
    /\ col' = deleteByTitle(col, title).col
    /\ out' = [EmptyOut EXCEPT !.deletedCount = deleteByTitle(col, title).deletedCount]
    /\ call' = [op |-> "deleteByTitle", title |-> title, price |-> 0]
    /\ runs' = runs + 1
    /\ removed' = removed + deleteByTitle(col, title).deletedCount
    /\ UNCHANGED <<nextId, indexes, script, phase, pc, inflight, issued, settled,
                   err, closeCalls, seedOk, partial>>

OpsAvg ==
    /\ \E tie \in TieOrders :
        out' = [EmptyOut EXCEPT !.avgPriceByGenre = avgPriceByGenre(col, tie)]
    /\ call' = [op |-> "avgPriceByGenre", title |-> "", price |-> 0]
    /\ UNCHANGED <<db, ghost, script, phase, pc, inflight, issued, settled, err,
                   closeCalls, runs>>

OpsDecade ==
    /\ \E tie \in TieOrders :
        out' = [EmptyOut EXCEPT !.byDecade = byDecade(col, tie)]
    /\ call' = [op |-> "byDecade", title |-> "", price |-> 0]
    /\ UNCHANGED <<db, ghost, script, phase, pc, inflight, issued, settled, err,
                   closeCalls, runs>>

NextOps ==
    \/ OpsSeed
    \/ \E t \in OpTitles, p \in OpPrices : OpsUpdate(t, p)
    \/ \E t \in OpTitles : OpsDelete(t)
    \/ OpsAvg
    \/ OpsDecade

SpecOps == Init /\ [][NextOps]_vars

----------------------------------------------------------------------------
(* Properties of the scripts (specification Spec) *)

\* The calls of the try block this run has made, close() left out.
TryIssued == SelectSeq(issued, LAMBDA o : o # "close")

IsPrefix(s, t) == Len(s) <= Len(t) /\ s = SubSeq(t, 1, Len(s))

\* C1: in the Seeder and in the Query Runner, on every path (the try block
\* ran to its end, connect() failed, or any one call failed) a run that has
\* ended called client.close() exactly once, close() is never called twice
\* nor before the try block is left, and no call is made after close().
ReleasedExactlyOnce ==
    /\ closeCalls <= 1
    /\ closeCalls = Len(SelectSeq(issued, LAMBDA o : o = "close"))
    /\ phase = "try" => closeCalls = 0
    /\ phase \in {"closing", "done"} => closeCalls = 1
    /\ phase = "done" => inflight = {}
    /\ \A i \in 1..Len(issued) : issued[i] = "close" => i = Len(issued)

\* A Query Runner run whose connect() failed has ended, released once.
ReleasedAfterConnectFailure ==
    /\ script = "queries"
    /\ phase = "done"
    /\ err = "connect"
    /\ closeCalls = 1
    /\ issued = << "connect", "close" >>

\* C2: when a call fails, the error is reported, the calls made are exactly
\* the script's calls up to the failed one, each made once (nothing after
\* it, no retry), every call before it completed, the collection and its
\* indexes keep what the completed calls did (the failed call of the Query
\* Runner changes nothing, a failed insertMany only appends, and nothing is
\* undone later in the run), and the run ends with one close().
FailureStopsTheRun ==
    [][ /\ err' # "none" =>
            /\ phase' \in {"finally", "closing", "done"}
            /\ TryIssued' # <<>>
            /\ IsPrefix(TryIssued', Ops(script'))
            /\ TryIssued'[Len(TryIssued')] = err'
            /\ settled' = Range(SubSeq(TryIssued', 1, Len(TryIssued') - 1))
            /\ phase' = "done" => closeCalls' = 1
        /\ (err = "none" /\ err' # "none") =>
            /\ IsPrefix(col, col')
            /\ err' # "insertMany" => col' = col
            /\ indexes' = indexes
        /\ (err # "none" /\ runs' = runs) =>
            /\ col' = col
            /\ indexes' = indexes
            /\ err' = err
      ]_vars

\* The delete failed after the update was done: the new price is kept.
FailedAfterUpdate ==
    /\ phase = "done"
    /\ err = "deleteByTitle"
    /\ "updatePriceByTitle" \in settled
    /\ \E i \in 1..Len(col) :
        col[i].title = "The Silent Orchard" /\ col[i].price = 1249
    /\ \E i \in 1..Len(col) : col[i].title = "Memoirs of a Voyager"

Ids(c) == {c[i].id : i \in 1..Len(c)}

\* C3: a successful insertMany appends the 12 fixture records, each under
\* an _id no record has, and leaves every record that was there as it was;
\* so with no delete and no failed insert, one successful Seeder run leaves
\* 12 records and two leave 24; no step of a Seeder run removes a record.
SeedingOnlyAppends ==
    [][ /\ seedOk' = seedOk + 1 =>
            /\ Len(col') = Len(col) + 12
            /\ IsPrefix(col, col')
            /\ \A i \in 1..12 :
                /\ \A f \in BookFields : col'[Len(col) + i][f] = sampleBooks[i][f]
                /\ col'[Len(col) + i].id \notin Ids(col)
            /\ Cardinality(Ids(col')) = Cardinality(Ids(col)) + 12
        /\ (script' = "seeder" /\ runs' = runs) => IsPrefix(col, col')
        /\ (partial' = 0 /\ removed' = 0) => Len(col') = 12 * seedOk'
      ]_vars

\* Two Seeder runs succeeded, no record was deleted: 24 records, every
\* title twice.
SeededTwice ==
    /\ seedOk = 2
    /\ partial = 0
    /\ removed = 0
    /\ Len(col) = 24
    /\ \A i \in 1..12 : Cardinality(Matches(col, sampleBooks[i].title)) = 2

Titles(s) == {s[i].title : i \in 1..Len(s)}

UniqueTitles(c) == \A i, j \in 1..Len(c) : c[i].title = c[j].title => i = j

\* The number of records whose title sorts before t.
Before(c, t) == Cardinality({j \in 1..Len(c) : TitleRank(c[j].title) < TitleRank(t)})

\* The titles of the first n records in title order.
Ranked(c, n) == {c[i].title : i \in {j \in 1..Len(c) : Before(c, c[j].title) < n}}

\* The statement of C7 as made: for every collection the scripts produce,
\* the two pages share no title and, from 10 records on, hold between them
\* the titles ranked 1 to 10.
PagesShareNoTitle ==
    "getPage2" \in settled =>
        /\ Titles(out.page1) \cap Titles(out.page2) = {}
        /\ Len(col) >= 10 =>
            Titles(out.page1) \cup Titles(out.page2) = Ranked(col, 10)

\* C7, amended: when no two records of the collection share a title (the
\* fixture seeded once, whatever the update and the delete did), page N
\* holds the records at offsets (N-1)*5 to (N-1)*5+4 of the title order, so
\* the pages share no title and, from 10 records on, hold between them the
\* titles ranked 1 to 10.
PagesOfUniqueTitles ==
    ("getPage2" \in settled /\ UniqueTitles(col)) =>
        /\ Titles(out.page1) \cap Titles(out.page2) = {}
        /\ Len(out.page1) = (IF Len(col) < 5 THEN Len(col) ELSE 5)
        /\ Len(out.page2) = (IF Len(col) < 5 THEN 0
                             ELSE IF Len(col) < 10 THEN Len(col) - 5 ELSE 5)
        /\ \A k \in 1..Len(out.page1) : Before(col, out.page1[k].title) = k - 1
        /\ \A k \in 1..Len(out.page2) : Before(col, out.page2[k].title) = 5 + k - 1
        /\ \A k \in 1..Len(out.page1) : \E i \in 1..Len(col) :
                col[i].title = out.page1[k].title /\ col[i].author = out.page1[k].author
        /\ Len(col) >= 10 =>
            /\ Titles(out.page1) \cup Titles(out.page2) = Ranked(col, 10)
            /\ Cardinality(Titles(out.page1) \cup Titles(out.page2)) = 10

\* Both pages were read from the fixture seeded once, less the deleted book.
PagedSeededOnce ==
    /\ "getPage2" \in settled
    /\ seedOk = 1
    /\ partial = 0
    /\ Len(col) = 11
    /\ Len(out.page1) = 5
    /\ Len(out.page2) = 5

\* The position of op in the Query Runner's script.
Pos(op) == CHOOSE k \in 1..Len(queriesOps) : queriesOps[k] = op

\* C10: the Query Runner has at most one call in flight, makes its calls in
\* script order, and makes a call only when every call before it has
\* completed: the update and the delete before any Task 3 read or Task 4
\* aggregation, the 'before' explain before either createIndex, the title
\* index before the compound index, and both indexes (then present in the
\* collection) before the 'after' explain and the compound explain.
OneCallAtATime ==
    script = "queries" =>
        /\ Cardinality(inflight) <= 1
        /\ IsPrefix(TryIssued, queriesOps)
        /\ \A i \in 1..(Len(issued) - 1) : issued[i] \notin inflight
        /\ err = "none" =>
            \A i \in 1..(Len(TryIssued) - 1) : TryIssued[i] \in settled
        /\ \A op \in Range(TryIssued) :
            /\ Pos(op) > Pos("deleteByTitle") =>
                {"updatePriceByTitle", "deleteByTitle"} \subseteq settled
            /\ Pos(op) >= Pos("createIndexTitle") => "explainBefore" \in settled
            /\ Pos(op) >= Pos("createIndexCompound") => "createIndexTitle" \in settled
            /\ Pos(op) >= Pos("explainAfter") =>
                /\ {"createIndexTitle", "createIndexCompound"} \subseteq settled
                /\ {"idx_title_1", "idx_author_publishedYear"} \subseteq indexes

\* A Query Runner run made every call and ended.
AllTasksCompleted ==
    /\ script = "queries"
    /\ phase = "done"
    /\ err = "none"
    /\ settled = Range(queriesOps)
    /\ Len(col) = 11

----------------------------------------------------------------------------
(* Properties of the functions (specification SpecOps) *)

\* This step is a call of updatePriceByTitle / deleteByTitle.
UpdateStep == call'.op = "updatePriceByTitle" /\ runs' = runs + 1

DeleteStep == call'.op = "deleteByTitle" /\ runs' = runs + 1

\* c without its i-th record.
Without(c, i) == [k \in 1..(Len(c) - 1) |-> IF k < i THEN c[k] ELSE c[k + 1]]

\* C4: updatePriceByTitle with a title no record has prints an empty (null)
\* result, adds no record and leaves every record as it was.
UpdateOfMissingTitle ==
    [][ (UpdateStep /\ Matches(col, call'.title) = {}) =>
            /\ out'.updated = <<>>
            /\ Len(col') = Len(col)
            /\ col' = col
      ]_vars

\* The update was called with a title the seeded collection does not hold.
UpdatedMissingTitle ==
    /\ call.op = "updatePriceByTitle"
    /\ call.title = "No Such Book"
    /\ Len(col) >= 12
    /\ out.updated = <<>>

\* C5: updatePriceByTitle with a title some record has sets the price of
\* one record of that title, the first, to newPrice and changes nothing
\* else; it prints that record as it is after the update; reading the title
\* back (the first record of that title) gives price = newPrice, and so
\* does every record of the title when the title is held once.
UpdateOfMatchingTitle ==
    [][ (UpdateStep /\ Matches(col, call'.title) # {}) =>
            LET t == call'.title
                p == call'.price
                changed == {i \in 1..Len(col) : col'[i] # col[i]}
            IN  /\ Len(col') = Len(col)
                /\ \E i \in Matches(col, t) :
                    /\ changed \subseteq {i}
                    /\ \A f \in BookFields \cup {"id"} :
                        col'[i][f] = (IF f = "price" THEN p ELSE col[i][f])
                    /\ out'.updated = << col'[i] >>
                /\ out'.updated[1].price = p
                /\ out'.updated[1].title = t
                /\ col'[FirstMatch(col', t)].price = p
                /\ Cardinality(Matches(col, t)) = 1 =>
                    \A j \in Matches(col', t) : col'[j].price = p
      ]_vars

\* The update of "The Silent Orchard" to 12.49 on the fixture seeded twice.
UpdatedSilentOrchard ==
    /\ call.op = "updatePriceByTitle"
    /\ call.title = "The Silent Orchard"
    /\ call.price = 1249
    /\ seedOk = 2
    /\ Len(out.updated) = 1
    /\ \E i, j \in Matches(col, "The Silent Orchard") :
        col[i].price = 1249 /\ col[j].price = 1499

\* C6: deleteByTitle removes one record of the title when there is one and
\* none otherwise, reports that number (1 or 0), and leaves the other
\* records as they were; in particular a title held once is gone after the
\* first delete (deletedCount 1) and a second delete reports 0 and changes
\* nothing.
DeleteRemovesAtMostOne ==
    [][ DeleteStep =>
            LET t == call'.title
                n == Cardinality(Matches(col, t))
            IN  /\ out'.deletedCount \in {0, 1}
                /\ out'.deletedCount = (IF n = 0 THEN 0 ELSE 1)
                /\ Len(col') = Len(col) - out'.deletedCount
                /\ Cardinality(Matches(col', t)) = n - out'.deletedCount
                /\ n = 0 => col' = col
                /\ n > 0 => \E i \in Matches(col, t) : col' = Without(col, i)
      ]_vars

\* "Memoirs of a Voyager" deleted from the fixture seeded once, and deleted
\* again: the second call reports 0.
DeletedMemoirsTwice ==
    /\ call.op = "deleteByTitle"
    /\ call.title = "Memoirs of a Voyager"
    /\ seedOk = 1
    /\ removed = 1
    /\ Len(col) = 11
    /\ Matches(col, "Memoirs of a Voyager") = {}
    /\ out.deletedCount = 0

\* How often x occurs in s.
Occurrences(s, x) == Cardinality({k \in 1..Len(s) : s[k] = x})

\* C8: the decade histogram has, for every record, exactly one group whose
\* _id is floor(published_year / 10) * 10, and that group lists the
\* record's title; the counts add up to the number of records; a group
\* lists as many titles as its count; the groups come in strictly
\* ascending order of decade.
DecadeHistogram ==
    call.op = "byDecade" =>
        LET h == out.byDecade
            floor10(y) == y - (y % 10)
        IN  /\ \A i \in 1..Len(col) :
                /\ Cardinality({k \in 1..Len(h) : h[k].id = floor10(col[i].published_year)}) = 1
                /\ \A k \in 1..Len(h) :
                    Occurrences(h[k].titles, col[i].title) =
                        Cardinality({j \in 1..Len(col) :
                            /\ col[j].title = col[i].title
                            /\ floor10(col[j].published_year) = h[k].id})
            /\ SumSeq([k \in 1..Len(h) |-> h[k].count]) = Len(col)
            /\ \A k \in 1..Len(h) : Len(h[k].titles) = h[k].count /\ h[k].count > 0
            /\ \A k \in 1..(Len(h) - 1) : h[k].id < h[k + 1].id

\* The histogram of the fixture seeded twice, one book deleted: the four
\* decades 1990 to 2020.
HistogramOfFourDecades ==
    /\ call.op = "byDecade"
    /\ seedOk = 2
    /\ Len(col) = 23
    /\ [k \in 1..Len(out.byDecade) |-> out.byDecade[k].id] = <<1990, 2000, 2010, 2020>>

Genres(c) == {c[i].genre : i \in 1..Len(c)}

OfGenre(c, g) == {i \in 1..Len(c) : c[i].genre = g}

\* The sum of the prices of the records of c at the indices in I.
RECURSIVE PriceTotal(_, _)
PriceTotal(c, I) ==
    IF I = {} THEN 0
    ELSE LET i == CHOOSE i \in I : TRUE
         IN  c[i].price + PriceTotal(c, I \ {i})

\* C9: the pipeline outputs one entry per genre present, with the number
\* of records of the genre and the arithmetic mean of their prices (their
\* sum over their number), in descending order of mean; and a call of
\* updatePriceByTitle leaves every genre's number of records as it was and,
\* for every genre but the updated record's, the sum of prices, hence the
\* mean the pipeline outputs when it is run again.
AveragePriceByGenre ==
    [][ /\ call'.op = "avgPriceByGenre" =>
            LET a == out'.avgPriceByGenre
            IN  /\ {a[k].id : k \in 1..Len(a)} = Genres(col')
                /\ Len(a) = Cardinality(Genres(col'))
                /\ \A k \in 1..Len(a) :
                    /\ a[k].count = Cardinality(OfGenre(col', a[k].id))
                    /\ a[k].averagePrice.n > 0
                    /\ a[k].averagePrice.sum * a[k].count =
                        PriceTotal(col', OfGenre(col', a[k].id)) * a[k].averagePrice.n
                /\ \A k \in 1..(Len(a) - 1) :
                    a[k].averagePrice.sum * a[k + 1].averagePrice.n >=
                        a[k + 1].averagePrice.sum * a[k].averagePrice.n
        /\ UpdateStep =>
            LET i == FirstMatch(col, call'.title)
            IN  /\ Genres(col') = Genres(col)
                /\ \A g \in Genres(col) :
                    /\ Cardinality(OfGenre(col', g)) = Cardinality(OfGenre(col, g))
                    /\ (i = 0 \/ g # col[i].genre) =>
                        PriceTotal(col', OfGenre(col', g)) = PriceTotal(col, OfGenre(col, g))
      ]_vars

\* The averages of the eight genres, recomputed after the price of "Data
\* Patterns in the Wild" was changed to 12.49.
AveragesAfterUpdate ==
    /\ call.op = "avgPriceByGenre"
    /\ Len(out.avgPriceByGenre) = 8
    /\ \E i \in 1..Len(col) :
        col[i].title = "Data Patterns in the Wild" /\ col[i].price = 1249

====
